---- MODULE Spec2Model ----
(***************************************************************************)
(* A model of scalar_set_eval: the value generator and corpus writer       *)
(* (utility.rs), the set attacher and CPU evaluator (evaluation.rs) and    *)
(* the benchmark harness (test.rs).                                        *)
(*                                                                         *)
(* The program has three entry points and the model has one specification  *)
(* for each part of it:                                                    *)
(*   SpecValues / FairValues  one call of generate_values, step by step    *)
(*   SpecEval                 generate writes a corpus, evaluate is run on *)
(*                            it (load_data, then the worker pool)         *)
(*   SpecRerun                one corpus evaluated again and again         *)
(*   SpecGpu                  evaluate with either engine, in a build with *)
(*                            or without the accelerator                   *)
(*   SpecPools                evaluate with the workers' steps in halves   *)
(*   SpecLadder / FairLadder  run_tests: the thread ladder                 *)
(*   SpecSweep                run_tests: the ladder and the sweep          *)
(*   SpecResume               a sweep that ends inside generate and the    *)
(*                            sweep run after it                           *)
(* The scalar set itself (ro_scalar_set: new, serialize, attach, any) is   *)
(* an external crate; it is modelled from the record layout the            *)
(* specification gives for it.                                             *)
(*                                                                         *)
(* An f32 is modelled by the integer it equals: every f32 the program      *)
(* makes is the image of an i32 under the `as f32` cast, hence integral.   *)
(***************************************************************************)
EXTENDS Integers, Sequences, FiniteSets, TLC

VARIABLES
    \* inputs shared by the entry points
    floats,             \* --floats: T = f32 (TRUE) or T = i32 (FALSE)
    min_value,          \* Range::new( min_value, max_value )
    max_value,
    \* generate_values
    gv_pc,              \* "idle" | "loop" | "convert" | "returned"
    gv_n,               \* values_in_set
    generated_values,   \* HashSet<i32>
    gv_rest,            \* elements of generated_values the for loop has not visited
    values,             \* Vec<T>
    \* the corpus file and generate
    file,               \* [exists, cells]: the file as a sequence of 4-byte cells
    gen_pc,             \* "idle" | "generating" | "writing" | "done" | "aborted"
    set_count,          \* generate's set_count
    values_in_set,      \* generate's values_in_set
    gen_sets,           \* Vec<RoScalarSet>: the generated sets
    gen_next,           \* the for loop of line 46 has serialized gen_sets[1..gen_next]
    \* evaluate, load_data and the worker pool
    ev_pc,              \* "idle" | "attach" | "preload" | "loaded" | "map" | "failed"
    probe_size,         \* params.values_in_set
    preload_data,       \* params.preload_data
    max_threads,        \* params.max_threads
    test_set,           \* Vec<T>: the probe values
    data,               \* &[T]: the mapped file
    cursor,             \* `buffer` of load_data: the tail data[cursor+1..]
    buffers,            \* Vec<RoScalarSet>: the attached views
    pending,            \* indexes of buffers no worker has taken yet
    partial,            \* each worker's folded sum
    result,             \* <<r>>: the EvaluationResult r the last call returned
    rerun,              \* the corpus is evaluated again on the first run's probe set
    first,              \* <<r>>: the first run's result, kept when rerun
    \* run_tests and run_test
    rt_pc,              \* "idle" | "ladder" | "sweep" | "done" | "panicked"
    rt_max_threads,     \* rayon::current_num_threads() in run_tests
    last,               \* `last` of the ladder loop
    thread_counts,      \* Vec<usize>
    pr_idx,             \* the outer loop is at preload[pr_idx]
    tc_idx,             \* the inner loop is at thread_counts[tc_idx]
    t_pc,               \* run_test: "idle" | "files" | "generating" | "grid" | "report"
    gi, gj, gk,         \* the loops are at set_sizes[gi], set_counts[gj], test_set_sizes[gk]
    t_results,          \* Vec<TestResult>
    files,              \* the corpus files: file name -> [exists, cells]
    gen_calls,          \* file name -> the number of generate calls on it
    report_names,       \* the names of the report files written, oldest first
    report,             \* the lines of the report written last
    process_no,         \* the processes run on the directory so far, this one included
    \* the engine of evaluate and the accelerator path
    eval_engine,        \* params.eval_engine: "Cpu" | "Gpu"
    gpu_feature,        \* the build has feature "gpu"
    panic_msg,          \* the message of the panic that ended evaluate, or ""
    set_start,          \* `set_start` of the offset loop
    begin_indexes,      \* Vec<i32>
    end_indexes,        \* Vec<i32>
    kernel_exit,        \* work item -> how its kernel invocation ended
    \* the worker pools
    pools,              \* the worker pools that exist: [kind, size]
    busy                \* <<pool kind, worker, set>>: the worker is at work on the set

valuesVars == <<gv_pc, gv_n, generated_values, gv_rest, values>>
inputVars == <<floats, min_value, max_value>>
genVars == <<file, gen_pc, set_count, values_in_set, gen_sets, gen_next>>
evalVars == <<ev_pc, probe_size, preload_data, max_threads, test_set, data, cursor,
              buffers, pending, partial, result, rerun, first>>
ladderVars == <<rt_pc, rt_max_threads, last, thread_counts>>
sweepVars == <<pr_idx, tc_idx, t_pc, gi, gj, gk, t_results, files, gen_calls,
               report_names, report, process_no>>
gpuVars == <<eval_engine, gpu_feature, panic_msg, set_start, begin_indexes,
             end_indexes, kernel_exit>>
poolVars == <<pools, busy>>

----------------------------------------------------------------------------
(* Bounds of the model.                                                    *)

\* the small ranges are [0, h) for h in 1..MaxValue
MaxValue == 2
\* values_in_set of one generate_values call is in 0..MaxN
MaxN == 3
\* generate writes 0..MaxSets sets of 0..MaxSetSize values each
MaxSets == 2
MaxSetSize == 2
\* a probe set has 0..MaxProbe values
MaxProbe == 1
\* a worker pool has 1..MaxThreads workers
MaxThreads == 2

----------------------------------------------------------------------------
(* FromI32: the conversion of a generated i32 to the element type.         *)

\* An f32 has a 24 bit significand: every integer of magnitude up to 2^24 is
\* an f32, above it only every 2nd, 4th, ... is.
F32Exact == 16777216

Abs(v) == IF v < 0 THEN -v ELSE v

\* The spacing of the f32s around magnitude a: the least power of two u with
\* a < 2^24 * u.
RECURSIVE Ulp(_, _)
Ulp(a, u) == IF a \div u < F32Exact THEN u ELSE Ulp(a, 2 * u)

\* `value as f32`: to the nearest f32, ties to the even significand.
F32FromI32(v) ==
    LET a == Abs(v)
        u == Ulp(a, 1)
        q == a \div u
        r == a % u
        m == IF 2 * r < u \/ (2 * r = u /\ q % 2 = 0) THEN q * u ELSE (q + 1) * u
    IN  IF v < 0 THEN -m ELSE m

I32FromI32(v) == v

FromI32(isFloat, v) == IF isFloat THEN F32FromI32(v) ELSE I32FromI32(v)

----------------------------------------------------------------------------
(* Ranges the entry points are started with.  Range::new panics unless     *)
(* low < high, so every range holds a value.                               *)

RangeValues(lo, hi) == lo .. (hi - 1)

SmallRanges == { <<0, h>> : h \in 1..MaxValue }

\* a window around 2^24, where the i32s stop being f32s
BigRanges == { <<F32Exact - 1, F32Exact + 1>>, <<F32Exact, F32Exact + 2>> }

----------------------------------------------------------------------------
(* The parts of the state an entry point does not use stay as they start.  *)

NoFile == [exists |-> FALSE, cells |-> <<>>]

IdleValues ==
    /\ gv_pc = "idle" /\ gv_n = 0 /\ generated_values = {} /\ gv_rest = {}
    /\ values = <<>>

IdleGen ==
    /\ file = NoFile /\ gen_pc = "idle" /\ set_count = 0 /\ values_in_set = 0
    /\ gen_sets = <<>> /\ gen_next = 0

IdleEval ==
    /\ ev_pc = "idle" /\ probe_size = 0 /\ preload_data = FALSE /\ max_threads = 1
    /\ test_set = <<>> /\ data = <<>> /\ cursor = 0 /\ buffers = <<>>
    /\ pending = {} /\ partial = <<>> /\ result = <<>> /\ first = <<>>

IdleGpu ==
    /\ eval_engine = "Cpu" /\ gpu_feature = FALSE /\ panic_msg = ""
    /\ set_start = 0 /\ begin_indexes = <<>> /\ end_indexes = <<>>
    /\ kernel_exit = <<>>

IdlePools ==
    /\ pools = {} /\ busy = {}

\* get_set_file_name, utility.rs 83-100: the name as the tuple of its parts
get_set_file_name(count, size, isFloat) ==
    IF isFloat THEN <<"f32_", count, "_sets_with_", size, "_values.bin">>
    ELSE <<"i32_", count, "_sets_with_", size, "_values.bin">>

\* the grids of run_test, test.rs 104-106, scaled down
set_sizes == <<1, 2>>
set_counts == <<1, 2>>
test_set_sizes == <<1, 2>>

\* every corpus file name of the grid, for one representation
GridNames(isFloat) ==
    { get_set_file_name(set_counts[j], set_sizes[i], isFloat) :
        i \in 1..Len(set_sizes), j \in 1..Len(set_counts) }

AllNames == GridNames(TRUE) \cup GridNames(FALSE)

IdleSweep ==
    /\ rt_pc = "idle" /\ rt_max_threads = 1 /\ last = 1 /\ thread_counts = <<>>
    /\ pr_idx = 1 /\ tc_idx = 1 /\ t_pc = "idle" /\ gi = 1 /\ gj = 1 /\ gk = 1
    /\ t_results = <<>>
    /\ files = [n \in AllNames |-> NoFile]
    /\ gen_calls = [n \in AllNames |-> 0]
    /\ report_names = <<>> /\ report = <<>> /\ process_no = 1

----------------------------------------------------------------------------
(* generate_values, utility.rs 54-80.                                      *)

\* the loop condition, line 66
GvLoopConditionInclusive(len, n) == len <= n
GvLoopCondition(len, n) == len < n

\* line 63-65: the empty set
GvCall(n, lo, hi, f) ==
    /\ gv_pc = "idle"
    /\ gv_n' = n /\ min_value' = lo /\ max_value' = hi /\ floats' = f
    /\ generated_values' = {}
    /\ values' = <<>>
    /\ gv_rest' = {}
    /\ gv_pc' = "loop"
    /\ UNCHANGED <<gpuVars, poolVars, genVars, evalVars, ladderVars, sweepVars>>

\* line 66-71: one pass of the while loop, sampling v
GvSample(v) ==
    /\ gv_pc = "loop"
    /\ GvLoopCondition(Cardinality(generated_values), gv_n)
    /\ v \in RangeValues(min_value, max_value)
    /\ generated_values' = generated_values \cup {v}
    /\ UNCHANGED <<gpuVars, poolVars, gv_pc, gv_n, gv_rest, values, inputVars, genVars, evalVars, ladderVars, sweepVars>>

\* line 66 false, line 74: the loop is left
GvLoopExit ==
    /\ gv_pc = "loop"
    /\ ~GvLoopCondition(Cardinality(generated_values), gv_n)
    /\ gv_pc' = "convert"
    /\ gv_rest' = generated_values
    /\ values' = <<>>
    /\ UNCHANGED <<gpuVars, poolVars, gv_n, generated_values, inputVars, genVars, evalVars, ladderVars, sweepVars>>

\* line 75-78: one pass of the for loop; a HashSet iterates in any order
GvConvert(v) ==
    /\ gv_pc = "convert"
    /\ v \in gv_rest
    /\ values' = Append(values, FromI32(floats, v))
    /\ gv_rest' = gv_rest \ {v}
    /\ UNCHANGED <<gpuVars, poolVars, gv_pc, gv_n, generated_values, inputVars, genVars, evalVars, ladderVars, sweepVars>>

\* line 79
GvReturn ==
    /\ gv_pc = "convert"
    /\ gv_rest = {}
    /\ gv_pc' = "returned"
    /\ UNCHANGED <<gpuVars, poolVars, gv_n, generated_values, gv_rest, values, inputVars, genVars, evalVars, ladderVars, sweepVars>>

InitValues ==
    /\ gv_pc = "idle"
    /\ gv_n = 0
    /\ generated_values = {}
    /\ gv_rest = {}
    /\ values = <<>>
    /\ floats = FALSE /\ min_value = 0 /\ max_value = 1
    /\ IdleGen /\ IdleEval /\ IdleGpu /\ IdlePools /\ rerun = FALSE /\ IdleSweep

GvCallAny ==
    \E n \in 0..MaxN, r \in SmallRanges \cup BigRanges, f \in BOOLEAN :
        GvCall(n, r[1], r[2], f)
GvSampleAny == \E v \in RangeValues(min_value, max_value) : GvSample(v)
GvConvertAny == \E v \in gv_rest : GvConvert(v)

NextValues ==
    \/ GvCallAny
    \/ GvSampleAny
    \/ GvLoopExit
    \/ GvConvertAny
    \/ GvReturn

vars == <<inputVars, valuesVars, genVars, evalVars, ladderVars, sweepVars,
          gpuVars, poolVars>>

SpecValues == InitValues /\ [][NextValues]_vars

\* The sampler is fair: while a sample can still change the set, one that does
\* is drawn at some time.  The loops themselves run on.
FairValues ==
    /\ SpecValues
    /\ WF_vars(GvSampleAny)
    /\ WF_vars(GvLoopExit) /\ WF_vars(GvConvertAny) /\ WF_vars(GvReturn)
----------------------------------------------------------------------------
(* generate_values as one step, for its callers generate and evaluate. The *)
(* loop is left with exactly values_in_set sampled values (C7), so the     *)
(* returned vector is the conversion of some subset of the range of that   *)
(* size; when the range has no such subset the call never returns.  Both   *)
(* callers hand the vector to RoScalarSet::new, which orders the values    *)
(* itself, so the vector is taken in ascending order.                      *)

Min(S) == CHOOSE m \in S : \A x \in S : m <= x

RECURSIVE Ascending(_)
Ascending(S) == IF S = {} THEN <<>> ELSE <<Min(S)>> \o Ascending(S \ {Min(S)})

ConvertAll(f, s) == [i \in 1..Len(s) |-> FromI32(f, s[i])]

GenerateValuesResults(n, lo, hi, f) ==
    { ConvertAll(f, Ascending(S)) :
        S \in { X \in SUBSET RangeValues(lo, hi) : Cardinality(X) = n } }

----------------------------------------------------------------------------
(* The scalar set of the external crate ro_scalar_set.  A record is        *)
(*   [header cell][bucket_count bucket cells][size cell][size values]      *)
(* with the bucket count in the header cell, each bucket's first payload   *)
(* offset in its bucket cell, and the payload ordered by bucket.           *)

BucketCount(n) == n \div 2 + 1

BucketOf(v, b) == Abs(v) % b

\* s ordered by (bucket, value)
RECURSIVE SortByBucket(_, _, _)
SortByBucket(s, idx, b) ==
    IF idx = {} THEN <<>>
    ELSE LET i == CHOOSE k \in idx : \A j \in idx :
                      \/ BucketOf(s[k], b) < BucketOf(s[j], b)
                      \/ /\ BucketOf(s[k], b) = BucketOf(s[j], b)
                         /\ \/ s[k] < s[j]
                            \/ (s[k] = s[j] /\ k <= j)
         IN  <<s[i]>> \o SortByBucket(s, idx \ {i}, b)

\* RoScalarSet::new( values ), as the cells serialize writes for it
NewSet(vals) ==
    LET b == BucketCount(Len(vals))
        pay == SortByBucket(vals, 1..Len(vals), b)
        start(j) == Cardinality({ i \in 1..Len(pay) : BucketOf(pay[i], b) < j })
    IN  <<b>> \o [j \in 1..b |-> start(j - 1)] \o <<Len(vals)>> \o pay

SetBuckets(cells) == cells[1]
SetSize(cells) == cells[SetBuckets(cells) + 2]
Payload(cells) == SubSeq(cells, SetBuckets(cells) + 3, Len(cells))
PayloadValues(cells) == { cells[i] : i \in (SetBuckets(cells) + 3)..Len(cells) }

\* RoScalarSet::attach( buffer ) on the tail d[off+1..]: the view and the start
\* of the new tail, or no view when no complete record is there
Attach(d, off) ==
    LET len == Len(d) - off
        b == d[off + 1]
        n == d[off + b + 2]
    IN  IF len >= 1 /\ len >= b + 2 /\ len >= b + 2 + n
        THEN [ok |-> TRUE,
              view |-> [off |-> off, cells |-> SubSeq(d, off + 1, off + b + 2 + n),
                        owned |-> FALSE],
              next |-> off + b + 2 + n]
        ELSE [ok |-> FALSE, view |-> <<>>, next |-> off]

\* view.contains( value ): a scan of the value's bucket
Contains(cells, v) ==
    LET b == SetBuckets(cells)
        k == BucketOf(v, b)
        lo == cells[2 + k]
        hi == IF k = b - 1 THEN SetSize(cells) ELSE cells[3 + k]
    IN  \E i \in (lo + 1)..hi : cells[b + 2 + i] = v

\* a.any( other ): some value of other is in a
SetAny(a, other) == \E i \in 1..SetSize(other) : Contains(a, Payload(other)[i])

\* RoScalarSet::clone: the same set in memory of its own
Clone(view) == [view EXCEPT !.owned = TRUE]

----------------------------------------------------------------------------
(* generate, utility.rs 16-52.                                             *)

\* line 26-33: File::create makes the file, or empties the one that is there
GenBegin(n, k, lo, hi, f) ==
    /\ gen_pc = "idle" /\ ev_pc = "idle"
    /\ set_count' = n /\ values_in_set' = k
    /\ min_value' = lo /\ max_value' = hi /\ floats' = f
    /\ file' = [exists |-> TRUE, cells |-> <<>>]
    /\ gen_sets' = <<>> /\ gen_next' = 0
    /\ gen_pc' = "generating"
    /\ UNCHANGED <<gpuVars, poolVars, valuesVars, evalVars, ladderVars, sweepVars>>

\* line 36-43: one element of the parallel map; collect keeps the index order.
\* An element whose generate_values never returns keeps the map from ending.
GenOneSet ==
    /\ gen_pc = "generating"
    /\ Len(gen_sets) < set_count
    /\ \E vs \in GenerateValuesResults(values_in_set, min_value, max_value, floats) :
          gen_sets' = Append(gen_sets, NewSet(vs))
    /\ UNCHANGED <<gpuVars, poolVars, file, gen_pc, set_count, values_in_set, gen_next,
                   inputVars, valuesVars, evalVars, ladderVars, sweepVars>>

\* line 43: the map is complete
GenCollected ==
    /\ gen_pc = "generating"
    /\ Len(gen_sets) = set_count
    /\ gen_pc' = "writing"
    /\ UNCHANGED <<gpuVars, poolVars, file, set_count, values_in_set, gen_sets, gen_next,
                   inputVars, valuesVars, evalVars, ladderVars, sweepVars>>

\* line 46-51: one pass of the for loop, the next set serialized to the file
GenSerialize ==
    /\ gen_pc = "writing"
    /\ gen_next < Len(gen_sets)
    /\ file' = [file EXCEPT !.cells = @ \o gen_sets[gen_next + 1]]
    /\ gen_next' = gen_next + 1
    /\ UNCHANGED <<gpuVars, poolVars, gen_pc, set_count, values_in_set, gen_sets,
                   inputVars, valuesVars, evalVars, ladderVars, sweepVars>>

\* line 48-50: a write fails and generate panics; the file keeps the cells that
\* had reached it, cut anywhere in the set being written
GenWriteFails(keep) ==
    /\ gen_pc = "writing"
    /\ gen_next < Len(gen_sets)
    /\ keep \in Len(file.cells)..(Len(file.cells) + Len(gen_sets[gen_next + 1]) - 1)
    /\ file' = [file EXCEPT !.cells = SubSeq(@ \o gen_sets[gen_next + 1], 1, keep)]
    /\ gen_pc' = "aborted"
    /\ UNCHANGED <<gpuVars, poolVars, set_count, values_in_set, gen_sets, gen_next,
                   inputVars, valuesVars, evalVars, ladderVars, sweepVars>>

\* line 52: the loop is over, the writer is flushed and closed
GenReturn ==
    /\ gen_pc = "writing"
    /\ gen_next = Len(gen_sets)
    /\ gen_pc' = "done"
    /\ UNCHANGED <<gpuVars, poolVars, file, set_count, values_in_set, gen_sets, gen_next,
                   inputVars, valuesVars, evalVars, ladderVars, sweepVars>>

----------------------------------------------------------------------------
(* evaluate, evaluation.rs 49-80, with the CPU engine.                     *)

\* line 56-65: the probe set is generated, the file opened and mapped.  When
\* a first result is kept, the call is the re-run on the identical corpus and
\* probe set: it keeps the probe set instead of drawing one.  Otherwise the
\* process evaluates once.
EvBegin(p, pre, t) ==
    /\ ev_pc = "idle"
    /\ gen_pc \in {"done", "aborted"}
    /\ rerun \/ result = <<>>
    /\ probe_size' = p /\ preload_data' = pre /\ max_threads' = t
    /\ IF first = <<>>
       THEN test_set' \in GenerateValuesResults(p, min_value, max_value, floats)
       ELSE p = probe_size /\ test_set' = test_set
    /\ \/ /\ file.exists /\ Len(file.cells) > 0
          /\ ev_pc' = "attach"
          /\ data' = file.cells
       \/ \* mapping an empty file: the platform maps nothing or refuses
          /\ file.exists /\ Len(file.cells) = 0
          /\ \/ ev_pc' = "attach" /\ data' = <<>>
             \/ ev_pc' = "failed" /\ data' = <<>>
    /\ cursor' = 0 /\ buffers' = <<>>
    /\ pending' = {} /\ partial' = <<>>
    /\ result' = <<>>
    /\ UNCHANGED <<gpuVars, poolVars, rerun, first, inputVars, valuesVars, genVars, ladderVars, sweepVars>>

\* (mutant) the loop takes an attach that uses up the buffer for its end
LoadAttachStopsAtEnd ==
    /\ ev_pc = "attach"
    /\ LET r == Attach(data, cursor)
       IN  IF r.ok /\ r.next < Len(data)
           THEN /\ cursor' = r.next
                /\ buffers' = Append(buffers, r.view)
                /\ ev_pc' = "attach"
           ELSE /\ ev_pc' = IF preload_data THEN "preload" ELSE "loaded"
                /\ UNCHANGED <<cursor, buffers>>
    /\ UNCHANGED <<gpuVars, poolVars, probe_size, preload_data, max_threads, test_set, data, pending,
                   partial, result, rerun, first, inputVars, valuesVars, genVars, ladderVars, sweepVars>>

\* (mutant) a failed attach is an error instead of the end of the loop
LoadAttachFailsOnError ==
    /\ ev_pc = "attach"
    /\ LET r == Attach(data, cursor)
       IN  IF r.ok
           THEN /\ cursor' = r.next
                /\ buffers' = Append(buffers, r.view)
                /\ ev_pc' = "attach"
           ELSE /\ ev_pc' = IF cursor < Len(data) THEN "failed"
                             ELSE IF preload_data THEN "preload" ELSE "loaded"
                /\ UNCHANGED <<cursor, buffers>>
    /\ UNCHANGED <<gpuVars, poolVars, probe_size, preload_data, max_threads, test_set, data, pending,
                   partial, result, rerun, first, inputVars, valuesVars, genVars, ladderVars, sweepVars>>

\* (mutant) the new view put before the ones collected
LoadAttachNewestFirst ==
    /\ ev_pc = "attach"
    /\ LET r == Attach(data, cursor)
       IN  IF r.ok
           THEN /\ cursor' = r.next
                /\ buffers' = <<r.view>> \o buffers
                /\ ev_pc' = "attach"
           ELSE /\ ev_pc' = IF preload_data THEN "preload" ELSE "loaded"
                /\ UNCHANGED <<cursor, buffers>>
    /\ UNCHANGED <<gpuVars, poolVars, probe_size, preload_data, max_threads, test_set, data, pending,
                   partial, result, rerun, first, inputVars, valuesVars, genVars, ladderVars, sweepVars>>

\* load_data line 352-363: one pass of the loop
LoadAttach ==
    /\ ev_pc = "attach"
    /\ LET r == Attach(data, cursor)
       IN  IF r.ok
           THEN /\ cursor' = r.next
                /\ buffers' = Append(buffers, r.view)
                /\ ev_pc' = "attach"
           ELSE /\ ev_pc' = IF preload_data THEN "preload" ELSE "loaded"
                /\ UNCHANGED <<cursor, buffers>>
    /\ UNCHANGED <<gpuVars, poolVars, probe_size, preload_data, max_threads, test_set, data, pending,
                   partial, result, rerun, first, inputVars, valuesVars, genVars, ladderVars, sweepVars>>

\* (mutant) the clones collected in the order the workers finish, here reversed
PreloadAllReversed(bs) == [i \in 1..Len(bs) |-> Clone(bs[Len(bs) + 1 - i])]

\* load_data line 366-369: every view cloned, collected in index order
PreloadAll(bs) == [i \in 1..Len(bs) |-> Clone(bs[i])]

LoadPreload ==
    /\ ev_pc = "preload"
    /\ buffers' = PreloadAll(buffers)
    /\ ev_pc' = "loaded"
    /\ UNCHANGED <<gpuVars, poolVars, probe_size, preload_data, max_threads, test_set, data, cursor,
                   pending, partial, result, rerun, first, inputVars, valuesVars, genVars, ladderVars, sweepVars>>

\* rayon::ThreadPool::new( Configuration::new().num_threads( n ) ), line 125-127
LocalPool(n) == [kind |-> "local", size |-> n]

\* (mutant) the CPU path taken when the accelerator is compiled out
EngineWithFallback(engine, feature, isFloat) ==
    IF engine = "Cpu" \/ ~feature THEN "cpu"
    ELSE IF ~isFloat THEN "not implemented"
    ELSE "gpu"

\* line 71-76, with evaluate_sets_gpu of the build (line 138-145 or 148-160)
\* and the WithGpu of the element type (line 196-207 or 211-321): the code
\* that runs for the engine
Engine(engine, feature, isFloat) ==
    IF engine = "Cpu" THEN "cpu"
    ELSE IF ~feature THEN "not enabled"
    ELSE IF ~isFloat THEN "not implemented"
    ELSE "gpu"

\* evaluate_with_cpu line 125-131: the pool of thread_count workers is built
\* and evaluate_with_cpu_expr starts in it
PoolInstall ==
    /\ ev_pc = "loaded"
    /\ Engine(eval_engine, gpu_feature, floats) = "cpu"
    /\ pending' = 1..Len(buffers)
    /\ partial' = [w \in 1..max_threads |-> 0]
    /\ pools' = pools \cup {LocalPool(max_threads)}
    /\ ev_pc' = "map"
    /\ UNCHANGED <<gpuVars, busy, probe_size, preload_data, max_threads, test_set, data, cursor,
                   buffers, result, rerun, first, inputVars, valuesVars, genVars, ladderVars, sweepVars>>

\* (mutant) the flag inverted
evaluate_set_cpu_inverted(probe, set) == IF SetAny(probe, set) THEN 0 ELSE 1

\* evaluate_set_cpu, line 374-383
evaluate_set_cpu(probe, set) == IF SetAny(probe, set) THEN 1 ELSE 0

\* (mutant) a flag folded twice
WorkerFoldTwice(sum, flag) == sum + flag + flag

\* line 170-172: worker w maps one set no worker has taken and folds the flag
\* into its sum
WorkerFold(sum, flag) == sum + flag

WorkerEvaluate(w, i) ==
    /\ ev_pc = "map"
    /\ w \in 1..max_threads
    /\ i \in pending
    /\ pending' = pending \ {i}
    /\ partial' = [partial EXCEPT
                     ![w] = WorkerFold(@, evaluate_set_cpu(NewSet(test_set), buffers[i].cells))]
    /\ UNCHANGED <<gpuVars, poolVars, ev_pc, probe_size, preload_data, max_threads, test_set, data,
                   cursor, buffers, result, rerun, first, inputVars, valuesVars, genVars, ladderVars, sweepVars>>

RECURSIVE SumFirst(_, _)
SumFirst(s, n) == IF n = 0 THEN 0 ELSE s[n] + SumFirst(s, n - 1)

\* (mutant) only the calling worker's sum is returned
ReduceSumsFirstOnly(sums) == IF Len(sums) = 0 THEN 0 ELSE sums[1]

\* line 172: the workers' sums reduced to one
ReduceSums(sums) == SumFirst(sums, Len(sums))

\* what the attached sets are, whoever owns their memory
LoadedSets(bs) == [i \in 1..Len(bs) |-> [off |-> bs[i].off, cells |-> bs[i].cells]]

\* line 173-177 and 133: the result, with the pool's thread count; the pool
\* is dropped
EvReturn ==
    /\ ev_pc = "map"
    /\ pending = {} /\ busy = {}
    /\ pools' = { q \in pools : q.kind # "local" }
    /\ result' = <<[match_count |-> ReduceSums(partial),
                     data_preloaded |-> preload_data,
                     thread_count |-> Len(partial)]>>
    /\ first' = IF rerun /\ first = <<>>
                 THEN <<[match_count |-> ReduceSums(partial),
                         data_preloaded |-> preload_data,
                         thread_count |-> Len(partial),
                         sets |-> LoadedSets(buffers)]>>
                 ELSE first
    /\ partial' = <<>>
    /\ ev_pc' = "idle"
    /\ UNCHANGED <<gpuVars, busy, probe_size, preload_data, max_threads, test_set, data, cursor,
                   buffers, pending, rerun, inputVars, valuesVars, genVars, ladderVars, sweepVars>>

InitEval ==
    /\ floats = FALSE /\ min_value = 0 /\ max_value = 1
    /\ IdleValues /\ IdleGen /\ IdleEval /\ IdleGpu /\ IdlePools /\ IdleSweep
    /\ rerun = FALSE

EvalRanges == { <<0, MaxValue>> }

GenBeginAny ==
    \E n \in 0..MaxSets, k \in 0..MaxSetSize, r \in EvalRanges, f \in BOOLEAN :
        GenBegin(n, k, r[1], r[2], f)
GenWriteFailsAny ==
    \E keep \in 0..(MaxSets * (MaxSetSize + BucketCount(MaxSetSize) + 2)) :
        GenWriteFails(keep)
EvBeginAny ==
    \E p \in 0..MaxProbe, pre \in BOOLEAN, t \in 1..MaxThreads : EvBegin(p, pre, t)
EvBeginReference == \E p \in 0..MaxProbe : first = <<>> /\ EvBegin(p, FALSE, 1)
EvBeginRerun ==
    \E pre \in BOOLEAN, t \in 1..MaxThreads : first # <<>> /\ EvBegin(probe_size, pre, t)
WorkerEvaluateAny == \E w \in 1..max_threads, i \in pending : WorkerEvaluate(w, i)

NextEval ==
    \/ GenBeginAny
    \/ GenOneSet
    \/ GenCollected
    \/ GenSerialize
    \/ GenWriteFailsAny
    \/ GenReturn
    \/ EvBeginAny
    \/ LoadAttach
    \/ LoadPreload
    \/ PoolInstall
    \/ WorkerEvaluateAny
    \/ EvReturn

SpecEval == InitEval /\ [][NextEval]_vars

\* The corpus of a complete generate, evaluated again and again on one probe
\* set.  The first run is the reference: one thread, no preload; its result
\* is kept and the later runs take any thread count and preload mode.
InitRerun ==
    /\ floats = FALSE /\ min_value = 0 /\ max_value = 1
    /\ IdleValues /\ IdleGen /\ IdleEval /\ IdleGpu /\ IdlePools /\ IdleSweep
    /\ rerun = TRUE

NextRerun ==
    \/ GenBeginAny
    \/ GenOneSet
    \/ GenCollected
    \/ GenSerialize
    \/ GenReturn
    \/ EvBeginReference
    \/ EvBeginRerun
    \/ LoadAttach
    \/ LoadPreload
    \/ PoolInstall
    \/ WorkerEvaluateAny
    \/ EvReturn

SpecRerun == InitRerun /\ [][NextRerun]_vars

----------------------------------------------------------------------------
(* The accelerator engine: evaluate_sets_gpu, evaluation.rs 137-160, and   *)
(* WithGpu::evaluate_with_gpu, 194-321.                                    *)

\* line 138-145: the build without feature "gpu"
GpuNotEnabled ==
    /\ ev_pc = "loaded"
    /\ Engine(eval_engine, gpu_feature, floats) = "not enabled"
    /\ ev_pc' = "failed"
    /\ panic_msg' = "GPU evaluation support not enabled."
    /\ UNCHANGED <<probe_size, preload_data, max_threads, test_set, data, cursor,
                   buffers, pending, partial, result, rerun, first,
                   eval_engine, gpu_feature, set_start, begin_indexes, end_indexes,
                   kernel_exit, poolVars,
                   inputVars, valuesVars, genVars, ladderVars, sweepVars>>

\* line 196-207: WithGpu for i32
GpuNotImplemented ==
    /\ ev_pc = "loaded"
    /\ Engine(eval_engine, gpu_feature, floats) = "not implemented"
    /\ ev_pc' = "failed"
    /\ panic_msg' = "Not implemented"
    /\ UNCHANGED <<probe_size, preload_data, max_threads, test_set, data, cursor,
                   buffers, pending, partial, result, rerun, first,
                   eval_engine, gpu_feature, set_start, begin_indexes, end_indexes,
                   kernel_exit, poolVars,
                   inputVars, valuesVars, genVars, ladderVars, sweepVars>>

\* line 249-269: WithGpu for f32; the program and the raw buffer are built on
\* the device, or an unwrap panics
GpuBegin ==
    /\ ev_pc = "loaded"
    /\ Engine(eval_engine, gpu_feature, floats) = "gpu"
    /\ \/ /\ ev_pc' = "offsets"
          /\ UNCHANGED panic_msg
       \/ /\ ev_pc' = "failed"
          /\ panic_msg' = "unwrap on an Err value"
    /\ set_start' = 0
    /\ begin_indexes' = <<>> /\ end_indexes' = <<>>
    /\ UNCHANGED <<probe_size, preload_data, max_threads, test_set, data, cursor,
                   buffers, pending, partial, result, rerun, first,
                   eval_engine, gpu_feature, kernel_exit, poolVars,
                   inputVars, valuesVars, genVars, ladderVars, sweepVars>>

\* (mutant) the size cell not counted
GpuBeginIndexNoSizeCell(start, buckets) == start + 1 + buckets

\* line 277
GpuBeginIndex(start, buckets) == start + 1 + buckets + 1

\* line 274 and 278
GpuEndIndex(start, buckets, size) == start + (1 + buckets + 1 + size)

\* line 270-282: one pass of the loop over the sets
GpuOffsets ==
    /\ ev_pc = "offsets"
    /\ Len(begin_indexes) < Len(buffers)
    /\ LET s == buffers[Len(begin_indexes) + 1]
           buckets == SetBuckets(s.cells)
           size == SetSize(s.cells)
       IN  /\ begin_indexes' = Append(begin_indexes, GpuBeginIndex(set_start, buckets))
           /\ end_indexes' = Append(end_indexes, GpuEndIndex(set_start, buckets, size))
           /\ set_start' = GpuEndIndex(set_start, buckets, size)
    /\ UNCHANGED <<ev_pc, probe_size, preload_data, max_threads, test_set, data, cursor,
                   buffers, pending, partial, result, rerun, first,
                   eval_engine, gpu_feature, panic_msg, kernel_exit, poolVars,
                   inputVars, valuesVars, genVars, ladderVars, sweepVars>>

\* line 285-315: the index tables and the probe values are loaded and the
\* kernel is enqueued, one work item for each set
GpuEnqueue ==
    /\ ev_pc = "offsets"
    /\ Len(begin_indexes) = Len(buffers)
    /\ kernel_exit' = [g \in 1..Len(buffers) |-> "pending"]
    /\ ev_pc' = "kernel"
    /\ UNCHANGED <<probe_size, preload_data, max_threads, test_set, data, cursor,
                   buffers, pending, partial, result, rerun, first,
                   eval_engine, gpu_feature, panic_msg, set_start, begin_indexes,
                   end_indexes, poolVars,
                   inputVars, valuesVars, genVars, ladderVars, sweepVars>>

\* line 221-245, the kernel: how the invocation on [iBegin, iEnd) can end.
\* It returns at the first element within 0.1 of a probe value, else at the
\* end of the range; it has no store.  A range that leaves the buffer is a
\* read out of bounds, which may do either or fault.
KernelSearch(buffer, iBegin, iEnd, probe) ==
    IF iBegin < 0 \/ iEnd > Len(buffer) THEN {"return", "end", "fault"}
    ELSE IF \E i \in iBegin..(iEnd - 1) : \E t \in 1..Len(probe) :
                10 * Abs(buffer[i + 1] - probe[t]) < 1
         THEN {"return"}
         ELSE {"end"}

\* one work item runs
GpuWorkItem(g) ==
    /\ ev_pc = "kernel"
    /\ g \in DOMAIN kernel_exit
    /\ kernel_exit[g] = "pending"
    /\ \E e \in KernelSearch(data, begin_indexes[g], end_indexes[g], test_set) :
          kernel_exit' = [kernel_exit EXCEPT ![g] = e]
    /\ UNCHANGED <<ev_pc, probe_size, preload_data, max_threads, test_set, data, cursor,
                   buffers, pending, partial, result, rerun, first,
                   eval_engine, gpu_feature, panic_msg, set_start, begin_indexes,
                   end_indexes, poolVars,
                   inputVars, valuesVars, genVars, ladderVars, sweepVars>>

\* (mutant) the work items that returned at a match are counted
GpuMatchCountHits(exits) ==
    Cardinality({ g \in DOMAIN exits : exits[g] = "return" })

\* line 319: the value of evaluate_with_gpu
GpuMatchCount(exits) == 0

\* line 315-319 and 156-159: the kernel is complete, evaluate_with_gpu returns
\* and evaluate_sets_gpu makes the result of its value
GpuReturn ==
    /\ ev_pc = "kernel"
    /\ \A g \in DOMAIN kernel_exit : kernel_exit[g] # "pending"
    /\ result' = <<[match_count |-> GpuMatchCount(kernel_exit)]>>
    /\ ev_pc' = "idle"
    /\ UNCHANGED <<probe_size, preload_data, max_threads, test_set, data, cursor,
                   buffers, pending, partial, rerun, first,
                   gpuVars, poolVars,
                   inputVars, valuesVars, genVars, ladderVars, sweepVars>>

\* One process: a build with or without feature "gpu", run with or without
\* --gpu on a corpus it generates first.
InitGpu ==
    /\ floats = FALSE /\ min_value = 0 /\ max_value = 1
    /\ IdleValues /\ IdleGen /\ IdleEval /\ IdlePools /\ IdleSweep
    /\ rerun = FALSE
    /\ eval_engine \in {"Cpu", "Gpu"} /\ gpu_feature \in BOOLEAN
    /\ panic_msg = ""
    /\ set_start = 0 /\ begin_indexes = <<>> /\ end_indexes = <<>>
    /\ kernel_exit = <<>>

EvBeginGpu == \E p \in 0..MaxProbe, pre \in BOOLEAN : EvBegin(p, pre, 1)
GpuWorkItemAny == \E g \in DOMAIN kernel_exit : GpuWorkItem(g)

NextGpu ==
    \/ GenBeginAny
    \/ GenOneSet
    \/ GenCollected
    \/ GenSerialize
    \/ GenReturn
    \/ EvBeginGpu
    \/ LoadAttach
    \/ LoadPreload
    \/ PoolInstall
    \/ WorkerEvaluateAny
    \/ EvReturn
    \/ GpuNotEnabled
    \/ GpuNotImplemented
    \/ GpuBegin
    \/ GpuOffsets
    \/ GpuEnqueue
    \/ GpuWorkItemAny
    \/ GpuReturn

SpecGpu == InitGpu /\ [][NextGpu]_vars

----------------------------------------------------------------------------
(* The workers at work.  The steps of load_data's preload and of the       *)
(* parallel map of evaluate_with_cpu_expr, each in two halves: a worker     *)
(* takes a set, and later is done with it.                                 *)

\* the pool a parallel iterator runs in when no pool is installed: rayon's
\* global pool, of rayon::current_num_threads() workers (test.rs 57)
GlobalPool(n) == [kind |-> "global", size |-> n]

\* the workers of pool q that are at work
BusyWorkers(q) == { b[2] : b \in { x \in busy : x[1] = q } }

\* load_data line 368, par_iter outside of any install: worker w of the global
\* pool takes the view i to clone it
PreloadTake(w, i) ==
    /\ ev_pc = "preload"
    /\ i \in 1..Len(buffers) /\ ~buffers[i].owned
    /\ \A b \in busy : b[3] # i
    /\ \E q \in pools : q.kind = "global" /\ w \in 1..q.size
    /\ w \notin BusyWorkers("global")
    /\ busy' = busy \cup {<<"global", w, i>>}
    /\ UNCHANGED <<pools, evalVars, gpuVars,
                   inputVars, valuesVars, genVars, ladderVars, sweepVars>>

\* line 368: the clone is made
PreloadFinish(w, i) ==
    /\ ev_pc = "preload"
    /\ <<"global", w, i>> \in busy
    /\ busy' = busy \ {<<"global", w, i>>}
    /\ buffers' = [buffers EXCEPT ![i] = Clone(@)]
    /\ UNCHANGED <<pools, ev_pc, probe_size, preload_data, max_threads, test_set, data,
                   cursor, pending, partial, result, rerun, first, gpuVars,
                   inputVars, valuesVars, genVars, ladderVars, sweepVars>>

\* line 368-370: collect has every clone, at the index of its view
PreloadCollect ==
    /\ ev_pc = "preload"
    /\ busy = {}
    /\ \A i \in 1..Len(buffers) : buffers[i].owned
    /\ ev_pc' = "loaded"
    /\ UNCHANGED <<poolVars, probe_size, preload_data, max_threads, test_set, data,
                   cursor, buffers, pending, partial, result, rerun, first, gpuVars,
                   inputVars, valuesVars, genVars, ladderVars, sweepVars>>

\* evaluation.rs 170-171, inside install: worker w of the call's pool takes
\* the set i
WorkerTake(w, i) ==
    /\ ev_pc = "map"
    /\ w \in 1..max_threads /\ w \notin BusyWorkers("local")
    /\ i \in pending
    /\ pending' = pending \ {i}
    /\ busy' = busy \cup {<<"local", w, i>>}
    /\ UNCHANGED <<pools, ev_pc, probe_size, preload_data, max_threads, test_set, data,
                   cursor, buffers, partial, result, rerun, first, gpuVars,
                   inputVars, valuesVars, genVars, ladderVars, sweepVars>>

\* line 171-172: the set is evaluated and its flag folded into the worker's sum
WorkerFinish(w, i) ==
    /\ ev_pc = "map"
    /\ <<"local", w, i>> \in busy
    /\ busy' = busy \ {<<"local", w, i>>}
    /\ partial' = [partial EXCEPT
                     ![w] = WorkerFold(@, evaluate_set_cpu(NewSet(test_set), buffers[i].cells))]
    /\ UNCHANGED <<pools, ev_pc, probe_size, preload_data, max_threads, test_set, data,
                   cursor, buffers, pending, result, rerun, first, gpuVars,
                   inputVars, valuesVars, genVars, ladderVars, sweepVars>>

\* A process that has asked rayon for its worker count, as run_tests does at
\* line 57, so that the global pool is there; it generates a corpus and
\* evaluates it again and again, as the scenarios of a sweep do.
InitPools ==
    /\ floats = FALSE /\ min_value = 0 /\ max_value = 1
    /\ IdleValues /\ IdleGen /\ IdleEval /\ IdleGpu
    /\ rerun = TRUE
    /\ rt_pc = "idle" /\ last = 1 /\ thread_counts = <<>>
    /\ rt_max_threads \in 1..MaxThreads
    /\ pr_idx = 1 /\ tc_idx = 1 /\ t_pc = "idle" /\ gi = 1 /\ gj = 1 /\ gk = 1
    /\ t_results = <<>>
    /\ files = [n \in AllNames |-> NoFile]
    /\ gen_calls = [n \in AllNames |-> 0]
    /\ report_names = <<>> /\ report = <<>> /\ process_no = 1
    /\ pools = {GlobalPool(rt_max_threads)}
    /\ busy = {}

EvBeginScenario ==
    \E p \in 0..MaxProbe, pre \in BOOLEAN, t \in 1..rt_max_threads :
        (first # <<>> => p = probe_size) /\ EvBegin(p, pre, t)
PreloadTakeAny == \E w \in 1..rt_max_threads, i \in 1..Len(buffers) : PreloadTake(w, i)
PreloadFinishAny == \E b \in busy : PreloadFinish(b[2], b[3])
WorkerTakeAny == \E w \in 1..max_threads, i \in pending : WorkerTake(w, i)
WorkerFinishAny == \E b \in busy : WorkerFinish(b[2], b[3])

NextPools ==
    \/ GenBeginAny
    \/ GenOneSet
    \/ GenCollected
    \/ GenSerialize
    \/ GenReturn
    \/ EvBeginScenario
    \/ LoadAttach
    \/ PreloadTakeAny
    \/ PreloadFinishAny
    \/ PreloadCollect
    \/ PoolInstall
    \/ WorkerTakeAny
    \/ WorkerFinishAny
    \/ EvReturn

SpecPools == InitPools /\ [][NextPools]_vars

----------------------------------------------------------------------------
(* generate and evaluate as single steps, for the sweep.                   *)

\* the files a generate of n sets of k values can leave when it returns
RECURSIVE GenerateCorpora(_, _, _, _, _)
GenerateCorpora(n, k, lo, hi, f) ==
    IF n = 0 THEN { <<>> }
    ELSE { c \o NewSet(vs) : c \in GenerateCorpora(n - 1, k, lo, hi, f),
                             vs \in GenerateValuesResults(k, lo, hi, f) }

\* the attach loop of load_data, line 352-363, from the tail at off
RECURSIVE AttachAll(_, _)
AttachAll(d, off) ==
    LET r == Attach(d, off)
    IN  IF r.ok THEN <<r.view>> \o AttachAll(d, r.next) ELSE <<>>

\* load_data, line 341-371
load_data(d, preload_to_memory) ==
    IF preload_to_memory THEN PreloadAll(AttachAll(d, 0)) ELSE AttachAll(d, 0)

\* evaluate_with_cpu, line 117-134 and 162-177: the flags of all sets summed
evaluate_with_cpu(sets, probe, data_preloaded, threads) ==
    [match_count |->
        ReduceSums([i \in 1..Len(sets) |->
                       WorkerFold(0, evaluate_set_cpu(NewSet(probe), sets[i].cells))]),
     data_preloaded |-> data_preloaded,
     thread_count |-> threads]

----------------------------------------------------------------------------
(* run_tests, test.rs 39-96.                                               *)

\* (mutant) the preloaded cases first
preloadTrueFirst == <<TRUE, FALSE>>

\* line 50
preload == <<FALSE, TRUE>>

Min2(a, b) == IF a < b THEN a ELSE b

\* (mutant) the doubling not capped
LadderNextUncapped(l, m) == l * 2

\* line 64
LadderNext(l, m) == Min2(l * 2, m)

\* line 55-59
RtBegin(lo, hi, f, m) ==
    /\ rt_pc = "idle"
    /\ min_value' = lo /\ max_value' = hi /\ floats' = f
    /\ rt_max_threads' = m
    /\ last' = 1
    /\ thread_counts' = <<1>>
    /\ rt_pc' = "ladder"
    /\ UNCHANGED <<gpuVars, poolVars, valuesVars, genVars, evalVars, sweepVars>>

\* line 60-67: one pass of the while loop
RtLadderStep ==
    /\ rt_pc = "ladder"
    /\ last < rt_max_threads
    /\ thread_counts' = Append(thread_counts, LadderNext(last, rt_max_threads))
    /\ last' = LadderNext(last, rt_max_threads)
    /\ UNCHANGED <<gpuVars, poolVars, rt_pc, rt_max_threads, inputVars, valuesVars, genVars, evalVars,
                   sweepVars>>

\* line 60 false: the ladder is built, the sweep starts at preload[1] and
\* thread_counts[1]
RtLadderDone ==
    /\ rt_pc = "ladder"
    /\ ~(last < rt_max_threads)
    /\ rt_pc' = "sweep"
    /\ UNCHANGED <<gpuVars, poolVars, rt_max_threads, last, thread_counts, inputVars, valuesVars,
                   genVars, evalVars, sweepVars>>

\* (mutant) the preload mode left out of the name
ReportNameWithoutMode(pr, threads) ==
    <<"report", "_", threads, "-threads", ".md">>

\* line 76-80: the report file name, as the tuple of its parts
ReportName(pr, threads) ==
    IF pr THEN <<"report", "_", threads, "-threads_with_preload", ".md">>
    ELSE <<"report", "_", threads, "-threads_no_preload", ".md">>

\* format!( "{}", n ) of a usize: its decimal digits
DigitStrings == <<"0", "1", "2", "3", "4", "5", "6", "7", "8", "9">>

RECURSIVE Decimal(_)
Decimal(n) ==
    IF n < 10 THEN <<DigitStrings[n + 1]>>
    ELSE Decimal(n \div 10) \o <<DigitStrings[(n % 10) + 1]>>

\* line 78-80: the name as the text format! makes of its parts
ReportFile(name) == <<name[1], name[2]>> \o Decimal(name[3]) \o <<name[4], name[5]>>

\* line 72-92 and 99-109: run_test is called for the next scenario and calls
\* generate_test_files
RtRunTest ==
    /\ rt_pc = "sweep" /\ t_pc = "idle"
    /\ pr_idx <= Len(preload)
    /\ t_pc' = "files"
    /\ gi' = 1 /\ gj' = 1 /\ gk' = 1
    /\ t_results' = <<>>
    /\ UNCHANGED <<gpuVars, poolVars, process_no, pr_idx, tc_idx, files, gen_calls, report_names, report,
                   ladderVars, inputVars, valuesVars, genVars, evalVars>>

----------------------------------------------------------------------------
(* generate_test_files, test.rs 239-280.                                   *)

\* the loops of line 246-248 move on; after the last pair the function returns
\* and run_test goes on to its grid
TfAdvance ==
    IF gj < Len(set_counts)
    THEN gj' = gj + 1 /\ gi' = gi /\ t_pc' = "files"
    ELSE IF gi < Len(set_sizes)
         THEN gj' = 1 /\ gi' = gi + 1 /\ t_pc' = "files"
         ELSE gj' = 1 /\ gi' = 1 /\ t_pc' = "grid"

\* line 252
FileExists(name) == files[name].exists

\* (mutant) no file is ever taken for present
FileNeverExists(name) == FALSE

\* (mutant) a file is reused when it holds all its sets
ReuseFileIfComplete(name) ==
    FileExists(name) /\ Len(AttachAll(files[name].cells, 0)) = name[2]

\* line 252, the test generate_test_files makes
ReuseFile(name) == FileExists(name)

\* line 251-257: one pass of the inner loop up to the call of generate; an
\* existing file is reused.  generate starts by creating the file
\* (utility.rs 27-30).
TfCheck ==
    /\ rt_pc = "sweep" /\ t_pc = "files"
    /\ LET name == get_set_file_name(set_counts[gj], set_sizes[gi], floats)
       IN  IF ReuseFile(name)
           THEN /\ TfAdvance
                /\ UNCHANGED <<files, gen_calls>>
           ELSE /\ files' = [files EXCEPT ![name] = [exists |-> TRUE, cells |-> <<>>]]
                /\ gen_calls' = [gen_calls EXCEPT ![name] = @ + 1]
                /\ t_pc' = "generating"
                /\ UNCHANGED <<gi, gj>>
    /\ UNCHANGED <<gpuVars, poolVars, process_no, pr_idx, tc_idx, gk, t_results, report_names, report,
                   ladderVars, inputVars, valuesVars, genVars, evalVars>>

\* line 258-277 (utility.rs 33-52): the sets are generated and written, and
\* generate returns; it never does when a set cannot be generated
TfGenerate ==
    /\ rt_pc = "sweep" /\ t_pc = "generating"
    /\ LET name == get_set_file_name(set_counts[gj], set_sizes[gi], floats)
       IN  \E c \in GenerateCorpora(set_counts[gj], set_sizes[gi],
                                    min_value, max_value, floats) :
               files' = [files EXCEPT ![name] = [exists |-> TRUE, cells |-> c]]
    /\ TfAdvance
    /\ UNCHANGED <<gpuVars, poolVars, process_no, pr_idx, tc_idx, gk, t_results, gen_calls, report_names, report,
                   ladderVars, inputVars, valuesVars, genVars, evalVars>>

----------------------------------------------------------------------------
(* run_test, test.rs 99-236.                                               *)

\* line 113-158: one pass of the innermost loop: one evaluate with the CPU
\* engine (evaluation.rs 49-80) and its TestResult
TgEvaluate ==
    /\ rt_pc = "sweep" /\ t_pc = "grid"
    /\ LET name == get_set_file_name(set_counts[gj], set_sizes[gi], floats)
           threads == thread_counts[tc_idx]
       IN  IF ~FileExists(name)
           THEN \* line 121-124
                /\ rt_pc' = "panicked"
                /\ UNCHANGED <<t_pc, gi, gj, gk, t_results>>
           ELSE \E probe \in GenerateValuesResults(test_set_sizes[gk], min_value,
                                                   max_value, floats) :
                /\ \/ /\ files[name].cells # <<>>
                      /\ t_results' = Append(t_results,
                           [set_size |-> set_sizes[gi],
                            set_count |-> set_counts[gj],
                            test_set_size |-> test_set_sizes[gk],
                            eval_result |->
                                evaluate_with_cpu(
                                    load_data(files[name].cells, preload[pr_idx]),
                                    probe, preload[pr_idx], threads)])
                      /\ rt_pc' = rt_pc
                      /\ IF gk < Len(test_set_sizes)
                         THEN gk' = gk + 1 /\ gj' = gj /\ gi' = gi /\ t_pc' = "grid"
                         ELSE IF gj < Len(set_counts)
                              THEN gk' = 1 /\ gj' = gj + 1 /\ gi' = gi /\ t_pc' = "grid"
                              ELSE IF gi < Len(set_sizes)
                                   THEN gk' = 1 /\ gj' = 1 /\ gi' = gi + 1
                                        /\ t_pc' = "grid"
                                   ELSE gk' = 1 /\ gj' = 1 /\ gi' = 1
                                        /\ t_pc' = "report"
                   \/ \* evaluation.rs 61: an empty file is not mapped
                      /\ files[name].cells = <<>>
                      /\ rt_pc' = "panicked"
                      /\ UNCHANGED <<t_pc, gi, gj, gk, t_results>>
    /\ UNCHANGED <<gpuVars, poolVars, process_no, rt_max_threads, last, thread_counts, pr_idx, tc_idx, files,
                   gen_calls, report_names, report,
                   inputVars, valuesVars, genVars, evalVars>>

\* line 180-222: the header block
HeaderBlock(r, current_set_size) ==
    << [kind |-> "header",
        data_preloaded |-> r.eval_result.data_preloaded,
        thread_count |-> r.eval_result.thread_count,
        set_size |-> current_set_size] >>

\* line 225-233: the row of one result
Row(r) ==
    << [kind |-> "row", set_count |-> r.set_count,
        test_set_size |-> r.test_set_size,
        match_count |-> r.eval_result.match_count] >>

\* (mutant) write_header is never reset
RECURSIVE RenderFromHeaderKept(_, _, _, _)
RenderFromHeaderKept(rs, i, current_set_size, write_header) ==
    IF i > Len(rs) THEN <<>>
    ELSE LET changed == rs[i].set_size # current_set_size
             current == IF changed THEN rs[i].set_size ELSE current_set_size
             header == changed \/ write_header
         IN  (IF header THEN HeaderBlock(rs[i], current) ELSE <<>>)
             \o Row(rs[i])
             \o RenderFromHeaderKept(rs, i + 1, current, write_header)

\* line 169-235: the loop over the results from results[i], with the loop's
\* two variables
RECURSIVE RenderFrom(_, _, _, _)
RenderFrom(rs, i, current_set_size, write_header) ==
    IF i > Len(rs) THEN <<>>
    ELSE LET changed == rs[i].set_size # current_set_size
             current == IF changed THEN rs[i].set_size ELSE current_set_size
             header == changed \/ write_header
         IN  (IF header THEN HeaderBlock(rs[i], current) ELSE <<>>)
             \o Row(rs[i])
             \o RenderFrom(rs, i + 1, current, FALSE)

\* line 167-168
Render(rs) == RenderFrom(rs, 1, rs[1].set_size, TRUE)

\* line 163-236: the report is written and run_test returns; the loops of
\* run_tests (line 72-74) move on
TrReport ==
    /\ rt_pc = "sweep" /\ t_pc = "report"
    /\ report_names' = Append(report_names, ReportName(preload[pr_idx], thread_counts[tc_idx]))
    /\ report' = Render(t_results)
    /\ t_pc' = "idle"
    /\ IF tc_idx < Len(thread_counts)
       THEN tc_idx' = tc_idx + 1 /\ pr_idx' = pr_idx /\ rt_pc' = rt_pc
       ELSE /\ tc_idx' = 1 /\ pr_idx' = pr_idx + 1
            /\ rt_pc' = IF pr_idx < Len(preload) THEN "sweep" ELSE "done"
    /\ UNCHANGED <<gpuVars, poolVars, process_no, rt_max_threads, last, thread_counts, gi, gj, gk, t_results, files,
                   gen_calls, inputVars, valuesVars, genVars, evalVars>>

----------------------------------------------------------------------------
(* The specifications of run_tests.                                        *)

\* the number of workers rayon reports: 1..MaxCores for the ladder alone,
\* 1..MaxSweepCores for the whole sweep
MaxCores == 32
MaxSweepCores == 3

SweepRanges == { <<0, 1>>, <<0, 2>> }

InitLadder ==
    /\ floats = FALSE /\ min_value = 0 /\ max_value = 1
    /\ IdleValues /\ IdleGen /\ IdleEval /\ IdleGpu /\ IdlePools /\ rerun = FALSE /\ IdleSweep

RtBeginLadder ==
    \E r \in SweepRanges, f \in BOOLEAN, m \in 1..MaxCores : RtBegin(r[1], r[2], f, m)

NextLadder ==
    \/ RtBeginLadder
    \/ RtLadderStep
    \/ RtLadderDone

SpecLadder == InitLadder /\ [][NextLadder]_vars

\* the loop of line 60 runs on
FairLadder == SpecLadder /\ WF_vars(RtLadderStep) /\ WF_vars(RtLadderDone)

\* the pairs of the grid in the order generate_test_files visits them
GridPair(p) == <<((p - 1) \div Len(set_counts)) + 1, ((p - 1) % Len(set_counts)) + 1>>

GridSize == Len(set_sizes) * Len(set_counts)

\* The corpus files an earlier sweep of the i32 representation left: it got
\* as far as some pair of the grid, so the files of the pairs before it are
\* there, each as a generate wrote it.
InitSweep ==
    /\ floats = FALSE /\ min_value = 0 /\ max_value = 1
    /\ IdleValues /\ IdleGen /\ IdleEval /\ IdleGpu /\ IdlePools /\ rerun = FALSE
    /\ rt_pc = "idle" /\ rt_max_threads = 1 /\ last = 1 /\ thread_counts = <<>>
    /\ pr_idx = 1 /\ tc_idx = 1 /\ t_pc = "idle" /\ gi = 1 /\ gj = 1 /\ gk = 1
    /\ t_results = <<>>
    /\ \E done \in 0..GridSize :
          files = [n \in AllNames |->
                     IF \E p \in 1..done :
                           n = get_set_file_name(set_counts[GridPair(p)[2]],
                                                 set_sizes[GridPair(p)[1]], FALSE)
                     THEN [exists |-> TRUE,
                           cells |-> CHOOSE c \in GenerateCorpora(n[2], n[4], 0, 2, FALSE) : TRUE]
                     ELSE NoFile]
    /\ gen_calls = [n \in AllNames |-> 0]
    /\ report_names = <<>> /\ report = <<>> /\ process_no = 1

RtBeginSweep ==
    \E r \in SweepRanges, f \in BOOLEAN, m \in 1..MaxSweepCores : RtBegin(r[1], r[2], f, m)

NextSweep ==
    \/ RtBeginSweep
    \/ RtLadderStep
    \/ RtLadderDone
    \/ RtRunTest
    \/ TfCheck
    \/ TfGenerate
    \/ TgEvaluate
    \/ TrReport

SpecSweep == InitSweep /\ [][NextSweep]_vars

----------------------------------------------------------------------------
(* A sweep that ends inside generate, and the sweep run after it on the    *)
(* same directory.                                                         *)

\* the processes run one after another on one directory
MaxProcesses == 2

\* utility.rs 33-51, called at test.rs 260-276: generate ends in a panic (the
\* range, a set's values, a write) or the process is ended while it runs; the
\* file, created at line 27, keeps the first `keep` cells of what generate
\* would have written, short of all of them
TfGenerateFails(keep) ==
    /\ rt_pc = "sweep" /\ t_pc = "generating"
    /\ LET name == get_set_file_name(set_counts[gj], set_sizes[gi], floats)
       IN  \E c \in GenerateCorpora(set_counts[gj], set_sizes[gi],
                                    min_value, max_value, floats) :
               /\ keep < Len(c)
               /\ files' = [files EXCEPT ![name] =
                              [exists |-> TRUE, cells |-> SubSeq(c, 1, keep)]]
    /\ rt_pc' = "panicked"
    /\ UNCHANGED <<gpuVars, poolVars, process_no, rt_max_threads, last, thread_counts,
                   pr_idx, tc_idx, t_pc, gi, gj, gk, t_results, gen_calls,
                   report_names, report, inputVars, valuesVars, genVars, evalVars>>

\* the process is over and the program is started again: nothing but the
\* files is left of the process before
RtRestart ==
    /\ rt_pc = "panicked"
    /\ process_no < MaxProcesses
    /\ process_no' = process_no + 1
    /\ rt_pc' = "idle" /\ rt_max_threads' = 1 /\ last' = 1 /\ thread_counts' = <<>>
    /\ pr_idx' = 1 /\ tc_idx' = 1 /\ t_pc' = "idle" /\ gi' = 1 /\ gj' = 1 /\ gk' = 1
    /\ t_results' = <<>>
    /\ gen_calls' = [n \in AllNames |-> 0]
    /\ report_names' = <<>> /\ report' = <<>>
    /\ floats' = FALSE /\ min_value' = 0 /\ max_value' = 1
    /\ UNCHANGED <<files, gpuVars, poolVars, valuesVars, genVars, evalVars>>

\* a directory without corpus files
InitResume ==
    /\ floats = FALSE /\ min_value = 0 /\ max_value = 1
    /\ IdleValues /\ IdleGen /\ IdleEval /\ IdleGpu /\ IdlePools /\ rerun = FALSE
    /\ IdleSweep

RtBeginResume == \E m \in 1..MaxThreads : RtBegin(0, 2, FALSE, m)

TfGenerateFailsAny ==
    \E keep \in 0..(MaxSets * (MaxSetSize + BucketCount(MaxSetSize) + 2)) :
        TfGenerateFails(keep)

NextResume ==
    \/ RtBeginResume
    \/ RtLadderStep
    \/ RtLadderDone
    \/ RtRunTest
    \/ TfCheck
    \/ TfGenerate
    \/ TfGenerateFailsAny
    \/ TgEvaluate
    \/ TrReport
    \/ RtRestart

SpecResume == InitResume /\ [][NextResume]_vars

----------------------------------------------------------------------------
(* Properties of generate_values.                                          *)

Distinct(s) == \A i, j \in 1..Len(s) : i # j => s[i] # s[j]

RangeSize == Cardinality(RangeValues(min_value, max_value))

\* C6: whenever generate_values returns, the returned vector has exactly
\* values_in_set elements and no two of them are equal, for i32 and for f32.
C6_ExactCountNoDuplicates ==
    gv_pc = "returned" => Len(values) = gv_n /\ Distinct(values)

\* C7: under fair sampling, generate_values returns when the range holds at
\* least values_in_set values, and it leaves the loop with exactly that many
\* sampled; when the range holds fewer it stays in the loop for ever, with no
\* error and nothing returned.
C7_ReturnsIffRangeLargeEnough ==
    /\ [](gv_pc = "loop" /\ RangeSize >= gv_n => <>(gv_pc = "returned"))
    /\ [](gv_pc \in {"convert", "returned"} =>
            Cardinality(generated_values) = gv_n /\ RangeSize >= gv_n)
    /\ [](gv_pc # "idle" /\ RangeSize < gv_n => gv_pc = "loop" /\ values = <<>>)

\* generate_values has returned all the values of its range
C7_Witness ==
    gv_pc = "returned" /\ gv_n = RangeSize /\ gv_n >= 2 /\ Len(values) = gv_n

----------------------------------------------------------------------------
(* Properties of evaluate.                                                 *)

ProbeValues == { test_set[i] : i \in 1..Len(test_set) }

\* the stored set shares a value with the probe set
Intersects(cells) == PayloadValues(cells) \cap ProbeValues # {}

IntersectingSets == { i \in 1..Len(buffers) : Intersects(buffers[i].cells) }

\* the attach loop of load_data is over
LoadDone ==
    \/ ev_pc \in {"preload", "loaded", "map"}
    \/ ev_pc = "idle" /\ result # <<>>

\* C1: the match_count of a CPU evaluation is the number of attached sets
\* that share a value with the probe set; while the workers run, their sums
\* add up to the number of such sets among the sets taken so far.
C1_MatchCountIsIntersectingSets ==
    /\ result # <<>> => result[1].match_count = Cardinality(IntersectingSets)
    /\ ev_pc = "map" =>
          ReduceSums(partial) = Cardinality(IntersectingSets \ pending)

\* two workers have evaluated two sets, one of which meets the probe set
C1_Witness ==
    /\ result # <<>> /\ result[1].thread_count = 2
    /\ Len(buffers) = 2 /\ result[1].match_count = 1

\* C2: every run on one corpus and one probe set returns the match_count of
\* the single-threaded reference run, whatever its thread count and whichever
\* worker took which set.
C2_MatchCountSameForAllPools ==
    first # <<>> /\ result # <<>> => result[1].match_count = first[1].match_count

\* a run with two workers after the reference run with one, on two sets of
\* which one meets the probe set
C2_Witness ==
    /\ first # <<>> /\ result # <<>>
    /\ first[1].thread_count = 1 /\ result[1].thread_count = 2
    /\ Len(buffers) = 2 /\ result[1].match_count = 1

\* C3: with preload and without, load_data gives the same sets in the same
\* order, and evaluate the same match_count; the views are owned copies
\* exactly when preload is set, and the result carries the flag.
C3_PreloadChangesOnlyTheFlag ==
    /\ first # <<>> /\ LoadDone /\ ev_pc # "preload" =>
          /\ LoadedSets(buffers) = first[1].sets
          /\ \A i \in 1..Len(buffers) : buffers[i].owned = preload_data
    /\ first # <<>> /\ result # <<>> =>
          /\ result[1].match_count = first[1].match_count
          /\ result[1].data_preloaded = preload_data

\* a preloaded run after the reference run without preload, on two different
\* sets
C3_Witness ==
    /\ first # <<>> /\ result # <<>>
    /\ ~first[1].data_preloaded /\ result[1].data_preloaded
    /\ Len(buffers) = 2 /\ buffers[1].cells # buffers[2].cells
    /\ result[1].match_count = 1

\* C4: match_count is at least 0 and at most the number of attached sets, and
\* so is every worker's sum on the way.
C4_MatchCountInRange ==
    /\ result # <<>> => result[1].match_count \in 0..Len(buffers)
    /\ \A w \in 1..Len(partial) : partial[w] \in 0..Len(buffers)

\* every attached set meets the probe set
C4_Witness ==
    /\ result # <<>> /\ Len(buffers) = 2 /\ result[1].match_count = 2

\* C5: on the corpus of a generate that returned, the attach loop ends with
\* one view for each of the set_count records written, in the order written,
\* the cursor at the end of the buffer, where attach fails.
C5_AttachRecoversEverySet ==
    /\ gen_pc = "done" /\ ev_pc = "attach" => Len(buffers) <= set_count
    /\ gen_pc = "done" /\ LoadDone =>
          /\ Len(buffers) = set_count
          /\ \A i \in 1..set_count : buffers[i].cells = gen_sets[i]
          /\ cursor = Len(data)
          /\ ~Attach(data, cursor).ok

\* two sets written and two attached
C5_Witness ==
    /\ gen_pc = "done" /\ LoadDone /\ set_count = 2 /\ values_in_set >= 1
    /\ Len(buffers) = 2

\* C9: on a file that ends inside a record, the attach loop ends at the first
\* failure without an error: the views of the complete records are kept in
\* order, there is none for the partial record, and the evaluation returns a
\* result for them.
C9_PartialTailEndsLoadSilently ==
    gen_pc = "aborted" =>
        /\ ev_pc = "failed" => data = <<>>
        /\ ev_pc = "attach" => Len(buffers) <= gen_next
        /\ LoadDone =>
              /\ Len(buffers) = gen_next
              /\ \A i \in 1..gen_next : buffers[i].cells = gen_sets[i]
              /\ ~Attach(data, cursor).ok
        /\ result # <<>> =>
              result[1].match_count =
                  Cardinality({ i \in 1..gen_next : Intersects(gen_sets[i]) })

\* a result on a file of one complete record and a partial one
C9_Witness ==
    /\ gen_pc = "aborted" /\ result # <<>>
    /\ gen_next = 1 /\ Len(buffers) = 1 /\ cursor < Len(data)
    /\ result[1].match_count = 1

----------------------------------------------------------------------------
(* Properties of run_tests.                                                *)

\* C8: the thread ladder starts at 1, is strictly increasing, each later
\* element is the smaller of twice the one before and the worker count, and
\* when the loop is over it ends at the worker count: <<1, 2, 4, 6>> for 6
\* workers and <<1>> for 1.  The loop ends.
C8_ThreadLadder ==
    /\ [](rt_pc # "idle" =>
            /\ Len(thread_counts) >= 1 /\ thread_counts[1] = 1
            /\ \A i \in 2..Len(thread_counts) :
                  /\ thread_counts[i] > thread_counts[i - 1]
                  /\ thread_counts[i] =
                        IF 2 * thread_counts[i - 1] < rt_max_threads
                        THEN 2 * thread_counts[i - 1] ELSE rt_max_threads)
    /\ [](rt_pc = "sweep" =>
            /\ thread_counts[Len(thread_counts)] = rt_max_threads
            /\ rt_max_threads = 6 => thread_counts = <<1, 2, 4, 6>>
            /\ rt_max_threads = 1 => thread_counts = <<1>>)
    /\ [](rt_pc = "ladder" => <>(rt_pc = "sweep"))

\* the ladder of six workers is built
C8_Witness ==
    rt_pc = "sweep" /\ rt_max_threads = 6 /\ thread_counts = <<1, 2, 4, 6>>

\* the file generate_test_files is generating
GeneratingName == get_set_file_name(set_counts[gj], set_sizes[gi], floats)

\* C10: generate_test_files calls generate only on a name that has no file,
\* and a file that exists is never changed, but by the generate that made it;
\* when generate_test_files has returned, every pair of the grid has its
\* file; a later call of the sweep generates nothing, so no file is generated
\* twice.
C10_CorpusGeneratedOnceAndReused ==
    /\ [](t_pc \in {"grid", "report"} \/ report_names # <<>> =>
            \A n \in GridNames(floats) : files[n].exists)
    /\ [](\A n \in AllNames : gen_calls[n] <= 1)
    /\ [][\A n \in AllNames :
            /\ gen_calls'[n] # gen_calls[n] => ~files[n].exists
            /\ files[n].exists /\ ~(t_pc = "generating" /\ n = GeneratingName) =>
                  files'[n] = files[n]]_vars
    /\ [][report_names # <<>> => gen_calls' = gen_calls]_vars

\* a whole sweep of several scenarios that found one file and generated the
\* others
C10_Witness ==
    /\ rt_pc = "done" /\ Len(report_names) >= 4
    /\ \E n, m \in GridNames(floats) :
          /\ gen_calls[n] = 0 /\ files[n].exists
          /\ gen_calls[m] = 1 /\ files[m].cells # <<>>

----------------------------------------------------------------------------
(* Properties of the report.                                               *)

\* the position in the report of the row of results[k]
RowPosition(rep, k) ==
    CHOOSE p \in 1..Len(rep) :
        /\ rep[p].kind = "row"
        /\ Cardinality({ q \in 1..p : rep[q].kind = "row" }) = k

RowCount(rep) == Cardinality({ q \in 1..Len(rep) : rep[q].kind = "row" })

HeaderCount(rep) == Cardinality({ q \in 1..Len(rep) : rep[q].kind = "header" })

\* results[k] starts a group: it is the first result, or its set size is not
\* that of the result before it
StartsGroup(rs, k) == k = 1 \/ rs[k].set_size # rs[k - 1].set_size

\* C11: the report of run_test has one row for each test result, in the order
\* of the results; a header block stands right before the row of the first
\* result and of every result whose set size differs from that of the result
\* before, and nowhere else; it carries the preload mode, the thread count and
\* that set size; there is one header block for each distinct set size.
C11_HeaderPerSetSizeRowPerResult ==
    t_pc = "idle" /\ report # <<>> =>
        /\ RowCount(report) = Len(t_results)
        /\ report[Len(report)].kind = "row"
        /\ \A k \in 1..Len(t_results) :
              LET p == RowPosition(report, k)
              IN  /\ report[p].set_count = t_results[k].set_count
                  /\ report[p].test_set_size = t_results[k].test_set_size
                  /\ report[p].match_count = t_results[k].eval_result.match_count
                  /\ StartsGroup(t_results, k) <=>
                        (p > 1 /\ report[p - 1].kind = "header")
                  /\ StartsGroup(t_results, k) =>
                        /\ report[p - 1].set_size = t_results[k].set_size
                        /\ report[p - 1].data_preloaded =
                              t_results[k].eval_result.data_preloaded
                        /\ report[p - 1].thread_count =
                              t_results[k].eval_result.thread_count
        /\ \A q \in 1..(Len(report) - 1) :
              report[q].kind = "header" => report[q + 1].kind = "row"
        /\ HeaderCount(report) =
              Cardinality({ t_results[k].set_size : k \in 1..Len(t_results) })

\* the report of a whole grid: two set sizes, four rows under each
C11_Witness ==
    /\ t_pc = "idle" /\ report # <<>>
    /\ HeaderCount(report) = 2 /\ RowCount(report) = 8
    /\ report[1].kind = "header" /\ report[6].kind = "header"

----------------------------------------------------------------------------
(* Properties of the sweep.                                                *)

\* the number of scenarios that have run to their end
ScenariosDone ==
    IF rt_pc = "done" THEN 2 * Len(thread_counts)
    ELSE (pr_idx - 1) * Len(thread_counts) + (tc_idx - 1)

\* the scenario that runs as the s-th: its preload mode and its thread count
ScenarioPreload(s) == s > Len(thread_counts)
ScenarioThreads(s) == thread_counts[((s - 1) % Len(thread_counts)) + 1]

\* C12: the scenarios without preload all run before the first one with
\* preload, and within one preload mode they run in the order of the thread
\* ladder; while a scenario runs, the reports of all scenarios before it are
\* written, every result collected is its own, and its report is written
\* when its whole grid is evaluated.
C12_SweepInOrder ==
    rt_pc \in {"sweep", "done", "panicked"} =>
        /\ Len(report_names) = ScenariosDone
        /\ \A s \in 1..Len(report_names) :
              /\ report_names[s][4] = IF ScenarioPreload(s) THEN "-threads_with_preload"
                                      ELSE "-threads_no_preload"
              /\ report_names[s][3] = ScenarioThreads(s)
        /\ \A i, j \in 1..Len(report_names) :
              i < j /\ report_names[i][4] = "-threads_with_preload" =>
                  /\ report_names[j][4] = "-threads_with_preload"
                  /\ report_names[i][3] < report_names[j][3]
        /\ rt_pc # "done" =>
              \A k \in 1..Len(t_results) :
                  LET s == IF t_pc = "idle" THEN ScenariosDone ELSE ScenariosDone + 1
                  IN  /\ t_results[k].eval_result.data_preloaded = ScenarioPreload(s)
                      /\ t_results[k].eval_result.thread_count = ScenarioThreads(s)
        /\ t_pc = "report" =>
              Len(t_results) = Len(set_sizes) * Len(set_counts) * Len(test_set_sizes)

\* a whole sweep on three workers: six scenarios
C12_Witness ==
    /\ rt_pc = "done" /\ thread_counts = <<1, 2, 3>>
    /\ Len(report_names) = 6
    /\ report_names[3][4] = "-threads_no_preload"
    /\ report_names[4][4] = "-threads_with_preload"

\* the names of the report files written, as texts
ReportFiles == [s \in 1..Len(report_names) |-> ReportFile(report_names[s])]

\* C13: every scenario that runs to its end writes one report file, and the
\* names of the report files of one sweep are pairwise different.
C13_OneReportPerScenario ==
    /\ [](rt_pc \in {"sweep", "done", "panicked"} => Len(report_names) = ScenariosDone)
    /\ [](Distinct(ReportFiles))
    /\ [][report_names' # report_names =>
            /\ t_pc = "report" /\ t_pc' = "idle"
            /\ report_names' = Append(report_names, report_names'[Len(report_names')])]_vars

\* four scenarios have written four reports
C13_Witness ==
    /\ rt_pc = "done" /\ thread_counts = <<1, 2>> /\ Len(report_names) = 4
    /\ Cardinality({ ReportFiles[s] : s \in 1..4 }) = 4

----------------------------------------------------------------------------
(* Properties of the accelerator engine.                                   *)

\* the accelerator is selected and cannot run
GpuCannotRun == eval_engine = "Gpu" /\ (~gpu_feature \/ ~floats)

\* C14: with the accelerator selected in a build without it, evaluate ends
\* in the panic 'GPU evaluation support not enabled.' whatever the element
\* type, and in a build with it, for i32, in the panic 'Not implemented'; it
\* never returns a result, no worker pool evaluates the sets in its place, and
\* nothing runs after the panic.
C14_GpuThatCannotRunIsFatal ==
    /\ [](GpuCannotRun =>
            /\ result = <<>>
            /\ ev_pc \notin {"map", "offsets", "kernel"}
            /\ pending = {} /\ partial = <<>>
            /\ panic_msg \in {"", IF gpu_feature THEN "Not implemented"
                                  ELSE "GPU evaluation support not enabled."}
            /\ panic_msg # "" => ev_pc = "failed")
    /\ [][GpuCannotRun /\ ev_pc = "loaded" => ev_pc' = "failed" /\ panic_msg' # ""]_vars
    /\ [][GpuCannotRun /\ ev_pc = "failed" => UNCHANGED vars]_vars

\* the build without the accelerator has panicked on two attached f32 sets
C14_Witness ==
    /\ eval_engine = "Gpu" /\ ~gpu_feature /\ floats
    /\ Len(buffers) = 2
    /\ ev_pc = "failed" /\ panic_msg = "GPU evaluation support not enabled."

\* C15: the result of the accelerator engine has match_count 0, whatever the
\* corpus and the probe set; the work item of a set that holds a probe value
\* returns at the match, the others at the end of their range, and no work
\* item changes anything the host reads.
C15_GpuReportsZeroMatches ==
    /\ [](eval_engine = "Gpu" /\ result # <<>> => result[1].match_count = 0)
    /\ [](ev_pc = "kernel" =>
            \A g \in DOMAIN kernel_exit :
                kernel_exit[g] # "pending" =>
                    (kernel_exit[g] = "return" <=> Intersects(buffers[g].cells)))
    /\ [][ev_pc = "kernel" /\ ev_pc' = "kernel" =>
            UNCHANGED <<data, test_set, buffers, begin_indexes, end_indexes, result>>]_vars

\* a result of the accelerator engine on two sets that both hold the probe
\* value
C15_Witness ==
    /\ eval_engine = "Gpu" /\ result # <<>>
    /\ Len(buffers) = 2 /\ Len(test_set) = 1
    /\ \A g \in 1..2 : kernel_exit[g] = "return" /\ Intersects(buffers[g].cells)
    /\ result[1].match_count = 0

\* the offset loop has run, at least in part
OffsetsComputed == eval_engine = "Gpu" /\ ev_pc \in {"offsets", "kernel"}

\* C16: for the i-th attached set, begin_i is the running offset plus the
\* header cell, the bucket cells and the size cell, end_i is begin_i plus the
\* size, and the running offset goes on at end_i; [begin_i, end_i) is the
\* payload of record i in the raw buffer, the ranges are in ascending order
\* and disjoint, and none leaves the raw buffer.
C16_GpuOffsetsArePayloadRegions ==
    OffsetsComputed =>
        /\ Len(end_indexes) = Len(begin_indexes)
        /\ Len(begin_indexes) <= Len(buffers)
        /\ ev_pc = "kernel" => Len(begin_indexes) = Len(buffers)
        /\ set_start = IF end_indexes = <<>> THEN 0 ELSE end_indexes[Len(end_indexes)]
        /\ \A i \in 1..Len(begin_indexes) :
              LET running == IF i = 1 THEN 0 ELSE end_indexes[i - 1]
                  cells == buffers[i].cells
              IN  /\ begin_indexes[i] = running + 1 + SetBuckets(cells) + 1
                  /\ end_indexes[i] = begin_indexes[i] + SetSize(cells)
                  /\ running = buffers[i].off
                  /\ SubSeq(data, begin_indexes[i] + 1, end_indexes[i]) = Payload(cells)
                  /\ running <= begin_indexes[i]
                  /\ begin_indexes[i] <= end_indexes[i]
                  /\ end_indexes[i] <= Len(data)

\* the offsets of two sets of two values each
C16_Witness ==
    /\ OffsetsComputed /\ ev_pc = "kernel"
    /\ Len(begin_indexes) = 2
    /\ \A i \in 1..2 : end_indexes[i] = begin_indexes[i] + 2
    /\ end_indexes[2] = Len(data)

----------------------------------------------------------------------------
(* Properties of the attach loop.                                          *)

\* load_data is in its loop or past it
Loading == ev_pc = "attach" \/ LoadDone

\* C17: in the attach loop the cursor only moves forward: a successful attach
\* takes the cells of one record from the cursor on and leaves the cursor at
\* the record's end, where the next attach starts; the views lie side by side
\* from offset 0 to the cursor, so no cell is in two of them, and they are
\* collected in the order generate wrote their records.
C17_CursorOnlyMovesForward ==
    /\ [][ev_pc = "attach" =>
            /\ cursor' >= cursor
            /\ cursor' # cursor =>
                  /\ Len(buffers') = Len(buffers) + 1
                  /\ SubSeq(buffers', 1, Len(buffers)) = buffers
                  /\ buffers'[Len(buffers')].off = cursor
                  /\ buffers'[Len(buffers')].cells = SubSeq(data, cursor + 1, cursor')
            /\ cursor' = cursor => buffers' = buffers /\ ev_pc' # "attach"]_vars
    /\ [](Loading =>
            /\ cursor <= Len(data)
            /\ cursor = IF buffers = <<>> THEN 0
                        ELSE buffers[Len(buffers)].off + Len(buffers[Len(buffers)].cells)
            /\ \A i \in 1..Len(buffers) :
                  /\ buffers[i].off = IF i = 1 THEN 0
                                      ELSE buffers[i - 1].off + Len(buffers[i - 1].cells)
                  /\ Len(buffers[i].cells) > 0
                  /\ buffers[i].cells = gen_sets[i]
            /\ \A i, j \in 1..Len(buffers) :
                  i < j => buffers[i].off + Len(buffers[i].cells) <= buffers[j].off)

\* two different records attached, the cursor at the end of the second
C17_Witness ==
    /\ ev_pc = "attach" /\ Len(buffers) = 2
    /\ buffers[1].cells # buffers[2].cells
    /\ cursor = buffers[2].off + Len(buffers[2].cells) /\ buffers[2].off > 0

----------------------------------------------------------------------------
(* Properties of the worker pools.                                         *)

\* the workers at work, of whatever pool
WorkersAtWork == { <<b[1], b[2]>> : b \in busy }

\* C18: the evaluation runs follow one another, and from the start of an
\* evaluate call to the return of its result (the attach loop and the preload
\* included) at most max_threads workers are at work for it at a time.
C18_WorkersWithinMaxThreads ==
    /\ ev_pc = "idle" => busy = {}
    /\ ev_pc # "idle" => Cardinality(WorkersAtWork) <= max_threads

\* C19: every worker at work belongs to a pool built inside the running
\* evaluate call, and the pool is gone when the call has returned: no pool
\* that is there before the call or after it does work for it.
C19_PoolsPrivateToOneCall ==
    /\ \A b \in busy :
          /\ b[1] = "local"
          /\ LocalPool(max_threads) \in pools
          /\ ev_pc = "map"
    /\ ev_pc = "idle" => \A q \in pools : q.kind # "local"

----------------------------------------------------------------------------
(* Properties of corpus reuse after an aborted generate.                   *)

\* the corpus file of the pair the loops of run_test are at
CurrentFile == files[GeneratingName]

\* the number of sets load_data attaches from the file of name n
AttachedSets(n) == Len(AttachAll(files[n].cells, 0))

\* what C20 has in common with its amended form: the file is created before
\* anything is generated, the file of an aborted generate stays, holding
\* fewer than set_count sets, no existing file is generated again, and every
\* result of the grid is that of the sets attached from the file as it is
ReuseByExistenceAlone ==
    /\ [](rt_pc = "sweep" /\ t_pc = "generating" =>
            CurrentFile = [exists |-> TRUE, cells |-> <<>>])
    /\ [][rt_pc = "sweep" /\ t_pc = "generating" /\ rt_pc' = "panicked" =>
            /\ files'[GeneratingName].exists
            /\ Len(AttachAll(files'[GeneratingName].cells, 0)) < set_counts[gj]]_vars
    /\ [][\A n \in AllNames :
            files[n].exists /\ ~(t_pc = "generating" /\ n = GeneratingName) =>
                files'[n] = files[n] /\ (rt_pc # "panicked" => gen_calls'[n] = gen_calls[n])]_vars
    /\ [](\A k \in 1..Len(t_results) :
            LET n == get_set_file_name(t_results[k].set_count, t_results[k].set_size,
                                       floats)
            IN  /\ files[n].exists
                /\ t_results[k].eval_result.match_count <= AttachedSets(n)
                /\ AttachedSets(n) <= t_results[k].set_count
                /\ gen_calls[n] = 0 /\ process_no > 1 /\ AttachedSets(n) < n[2] =>
                      t_results[k].eval_result.match_count < t_results[k].set_count)

\* C20 as claimed: the sweep evaluates against whatever file is there, so it
\* never ends in the grid.
C20_AbortedFileReusedAndEvaluated ==
    /\ ReuseByExistenceAlone
    /\ [](~(rt_pc = "panicked" /\ t_pc = "grid"))

\* C20 as amended: the sweep evaluates against a file that holds a cell, and
\* ends at the evaluation of an empty one.
C20_AbortedFileReusedEmptyFileFatal ==
    /\ ReuseByExistenceAlone
    /\ [](rt_pc = "panicked" /\ t_pc = "grid" =>
            CurrentFile.exists /\ CurrentFile.cells = <<>>)
    /\ [][rt_pc = "sweep" /\ t_pc = "grid" /\ CurrentFile.cells # <<>> =>
            rt_pc' = "sweep" /\ Len(t_results') = Len(t_results) + 1]_vars
    /\ [][rt_pc = "sweep" /\ t_pc = "grid" /\ CurrentFile.cells = <<>> =>
            rt_pc' = "panicked" /\ t_results' = t_results]_vars

\* the sweep after an aborted one has run to its end on a file that holds one
\* set of two
C20_Witness ==
    /\ process_no = 2 /\ rt_pc = "done"
    /\ \E n \in GridNames(floats) :
          /\ n[2] = 2 /\ gen_calls[n] = 0 /\ files[n].exists
          /\ AttachedSets(n) = 1
          /\ \E k \in 1..Len(t_results) :
                t_results[k].set_count = 2 /\ t_results[k].set_size = n[4]

====
